---- MODULE Spec2Model ----
(***************************************************************************)
(* The motion-and-collision core of the driving game                       *)
(* (src/driving-game/src/App.tsx, the App component of lines 687-950).     *)
(*                                                                         *)
(* Numbers.  The component computes with IEEE doubles.  The model computes *)
(* on a grid: one unit is 5e-9 degrees, every stored result is the real    *)
(* result rounded to the nearest grid point (as a double is the real       *)
(* result rounded to the nearest double), and comparisons of a square root *)
(* with a constant are made on the squares (Math.sqrt is monotone).  lng   *)
(* and lat are offsets from the initial centre (-122.3321, 47.6062).       *)
(*                                                                         *)
(* React.  A state setter called in a handler takes effect when the        *)
(* handler has returned; the closures updateVelocity and updateCarPosition *)
(* read the state of the render that created them.  A handler is one       *)
(* atomic action: JavaScript runs a callback to completion.  When a        *)
(* handler has returned React renders the queued updates and runs the      *)
(* effect of lines 903-909, which clears the interval and sets a new one   *)
(* whose callback closes over the new state; all that is done before the   *)
(* next callback starts.  The runs of SpecSteps take the interval callback *)
(* in its two calls, with the call stack and the queue of updates.         *)
(***************************************************************************)
EXTENDS Integers, Sequences, FiniteSets, TLC

VARIABLES
    keysPressed,   \* useState<Set<string>>: the keys held
    velocity,      \* useState<[number, number]>: <<vx, vy>>
    lng,           \* useState: longitude of the map centre
    lat,           \* useState: latitude of the map centre
    carRotation,   \* useState: the heading, kept as the ray atan2 is applied to
    obstacles,     \* useState<[number, number][]>
    isLoading,     \* useState: TRUE until the map's load event
    mapCurrent,    \* map.current is set
    mounted,       \* the component is mounted
    intervals,     \* the intervals set and not cleared: each a handle and
                   \* the state its callback closes over
    stack,         \* the call stack: empty, or the frame of the interval
                   \* callback with the calls it has made
    batch,         \* the state updates queued by the callback on the stack
    rearmed,       \* the render after the last handler ran the cleanup of
                   \* line 908 and set a new interval (line 904)
    ticks,         \* number of game-loop callbacks run so far, counted up
                   \* to the budget of the run
    keyEvents,     \* number of key events delivered so far
    last           \* history: the last handler run (op, key), the state it
                   \* started from (pre) and, for a tick, the integrator's
                   \* output (integrated), whether an obstacle was hit, the
                   \* state its callback closed over (closure) and the calls
                   \* it made; contact: the latest tick hit an obstacle
                   \* (preContact: the one before this handler did)

vars == <<keysPressed, velocity, lng, lat, carRotation, obstacles, isLoading,
          mapCurrent, mounted, intervals, stack, batch, rearmed, ticks,
          keyEvents, last>>

(***************************************************************************)
(* Program constants, in grid units.                                       *)
(***************************************************************************)
maxSpeed == 2000          \* 0.00001
acceleration == 500       \* 0.0000025
deceleration == 5         \* 0.05, in hundredths
stopThreshold == 20       \* 0.0000001
collisionRadius == 20000  \* 0.0001
NumObstacles == 10        \* for (let i = 0; i < 10; i++)

(***************************************************************************)
(* Bounds of the model.                                                    *)
(***************************************************************************)
MaxTicks == 5        \* ticks of a run with a budget of key events
MaxKeyEvents == 2    \* key events of such a run
MaxKeyTicks == 2     \* ticks of a run with any number of key events
MaxDriveTicks == 6   \* ticks of a run on a map without obstacles

ArrowKeys == {"ArrowUp", "ArrowDown", "ArrowLeft", "ArrowRight"}
OtherKeys == {"a"}
EventKeys == ArrowKeys \cup OtherKeys

(***************************************************************************)
(* Arithmetic.                                                             *)
(***************************************************************************)
Abs(x) == IF x < 0 THEN -x ELSE x

Sgn(x) == IF x > 0 THEN 1 ELSE IF x < 0 THEN -1 ELSE 0

\* n / d rounded to the nearest integer (d > 0)
RoundDiv(n, d) == Sgn(n) * ((2 * Abs(n) + d) \div (2 * d))

\* the integer part of the square root of n, by bisection of lo..hi (the
\* set constructors bind mid and r to values, evaluated once)
RECURSIVE SqrtSearch(_, _, _)
SqrtSearch(n, lo, hi) ==
    IF lo >= hi THEN lo
    ELSE CHOOSE root \in
             { IF mid * mid <= n THEN SqrtSearch(n, mid, hi)
               ELSE SqrtSearch(n, lo, mid - 1) :
               mid \in {(lo + hi + 1) \div 2} } : TRUE

\* Math.sqrt: the square root rounded to the nearest integer
Sqrt(n) ==
    CHOOSE root \in
        { IF n - r * r > r THEN r + 1 ELSE r : r \in {SqrtSearch(n, 0, 46340)} } :
        TRUE

RECURSIVE GCD(_, _)
GCD(a, b) ==
    IF b = 0 THEN a
    ELSE CHOOSE g \in { GCD(b, r) : r \in {a % b} } : TRUE

\* Math.atan(y / x) for Math.atan2(y, x): the sign of x is lost
Atan2NoQuadrant(y, x) ==
    LET g == GCD(Abs(y), Abs(x))
    IN  IF g = 0 THEN <<0, -1>> ELSE <<y \div g, Abs(x) \div g>>

\* Math.atan2(y, x): the angle of the ray from the origin through (x, y).
\* atan2 maps rays to angles one to one, so the angle is kept as the ray,
\* <<y, x>> reduced to lowest terms.  updateCarPosition passes x = -vx:
\* for a zero velocity that is atan2(0, -0), the angle pi of the ray <<0, -1>>.
Atan2(y, x) ==
    LET g == GCD(Abs(y), Abs(x))
    IN  IF g = 0 THEN <<0, -1>> ELSE <<y \div g, x \div g>>

\* the sum of the squares of a vector's components
Speed2(v) == v[1] * v[1] + v[2] * v[2]

\* the state a handler starts from
Snapshot ==
    [keysPressed |-> keysPressed, velocity |-> velocity, lng |-> lng,
     lat |-> lat, carRotation |-> carRotation, obstacles |-> obstacles]

\* what the callbacks of a render close over (the dependencies of lines 740
\* and 774)
Captured(keys, v, x, y, obs) ==
    [keysPressed |-> keys, velocity |-> v, lng |-> x, lat |-> y,
     obstacles |-> obs]

\* the closure of the callbacks of the current render, and of the next
Rendered == Captured(keysPressed, velocity, lng, lat, obstacles)

RenderedNext == Captured(keysPressed', velocity', lng', lat', obstacles')

\* the history of a handler that is no tick
NoTick(op, key) ==
    [op |-> op, key |-> key, pre |-> Snapshot, integrated |-> <<0, 0>>,
     hit |-> FALSE, closure |-> Rendered, calls |-> <<>>,
     contact |-> last.contact, preContact |-> last.contact]

\* the history of a tick run with the closure c
TickRecord(c, newVelocity, hit) ==
    [op |-> "tick", key |-> "", pre |-> Snapshot, integrated |-> newVelocity,
     hit |-> hit, closure |-> c,
     calls |-> <<"updateVelocity", "updateCarPosition">>,
     contact |-> hit, preContact |-> last.contact]

(***************************************************************************)
(* The game loop effect (lines 903-909).                                   *)
(***************************************************************************)
\* the handle setInterval returns: one no interval of the set has
LatestHandle(active) ==
    IF active = {} THEN 0
    ELSE CHOOSE h \in {i.handle : i \in active} :
             \A i \in active : i.handle <= h

\* line 904
setInterval(active, c) ==
    active \cup {[handle |-> LatestHandle(active) + 1, closure |-> c]}

\* line 908
clearInterval(active, handle) == {i \in active : i.handle # handle}

\* the effect run again without the cleanup of line 908
RearmWithoutCleanup(active, c) == setInterval(active, c)

\* the effect run again: the cleanup of the previous run clears the interval
\* that run had set, then line 904 sets one with the new callbacks
Rearm(active, c) ==
    setInterval(clearInterval(active, LatestHandle(active)), c)

\* the dependencies of the callbacks of a render: the values its closure
\* holds, and whether one of them is an object created since the render
\* before (React compares dependencies with Object.is)
Deps(c, fresh) == [closure |-> c, fresh |-> fresh]

\* the handler that has just run passed a new object to a setter: a tick a
\* new velocity array (lines 743, 773, 736), an arrow key event a new Set
\* (lines 778, 785), the load handler a new obstacle array (line 835)
NewReference ==
    \/ last'.op \in {"tick", "load"}
    \/ last'.op \in {"keydown", "keyup"} /\ last'.key \in ArrowKeys

\* DepsChanged as if keysPressed were no dependency of updateVelocity
DepsChangedButKeys(before, after) ==
    [before.closure EXCEPT !.keysPressed = {}]
        # [after.closure EXCEPT !.keysPressed = {}]

\* line 909 with lines 740 and 774: updateVelocity or updateCarPosition is a
\* new function when keysPressed, velocity, lng, lat or obstacles changed
DepsChanged(before, after) == before # after

gameLoopEffect(active, before, after) ==
    IF DepsChanged(before, after) THEN Rearm(active, after.closure) ELSE active

\* the render after a handler that has returned, with its effect
Render ==
    /\ intervals' = gameLoopEffect(intervals, Deps(Rendered, FALSE),
                                   Deps(RenderedNext, NewReference))
    /\ rearmed' = DepsChanged(Deps(Rendered, FALSE),
                              Deps(RenderedNext, NewReference))

Commit ==
    /\ Render
    /\ UNCHANGED <<mounted, stack, batch>>

\* the event loop starts a callback when no callback is running
CanDispatchAlways == TRUE

CanDispatch == stack = <<>>

(***************************************************************************)
(* updateVelocity (lines 742-774).                                         *)
(***************************************************************************)
\* AccelerationVector with ArrowLeft and ArrowRight exchanged
AccelerationVectorMirrored(keys) ==
    << (IF "ArrowRight" \in keys THEN 1 ELSE 0)
         - (IF "ArrowLeft" \in keys THEN 1 ELSE 0),
       (IF "ArrowDown" \in keys THEN 1 ELSE 0)
         - (IF "ArrowUp" \in keys THEN 1 ELSE 0) >>

\* lines 746-749: the direction <<x, y>> the held keys sum to
AccelerationVector(keys) ==
    << (IF "ArrowLeft" \in keys THEN 1 ELSE 0)
         - (IF "ArrowRight" \in keys THEN 1 ELSE 0),
       (IF "ArrowDown" \in keys THEN 1 ELSE 0)
         - (IF "ArrowUp" \in keys THEN 1 ELSE 0) >>

\* lines 751-755 and the products of lines 758-759: component a of a
\* direction of squared magnitude m2, divided by the magnitude unless that
\* is 0, times acceleration
Thrust(a, m2) ==
    IF m2 # 0
    THEN Sgn(a) * Sqrt((a * a * acceleration * acceleration) \div m2)
    ELSE a * acceleration

\* Damp with the factor 1 instead of (1 - deceleration)
DampNothing(c) == c

\* lines 761-762: a component times (1 - deceleration)
Damp(c) == RoundDiv(c * (100 - deceleration), 100)

\* lines 757-763: thrust when any key is held, damping when none is
Accelerate(v, keys) ==
    LET a  == AccelerationVector(keys)
        m2 == Speed2(a)
    IN  IF Cardinality(keys) > 0
        THEN <<v[1] + Thrust(a[1], m2), v[2] + Thrust(a[2], m2)>>
        ELSE <<Damp(v[1]), Damp(v[2])>>

\* BelowStopThreshold on the components instead of the magnitude
BelowStopThresholdByComponent(nv) ==
    nv[1] < stopThreshold /\ nv[2] < stopThreshold

\* line 766: speed < 0.0000001
BelowStopThreshold(nv) == Speed2(nv) < stopThreshold * stopThreshold

\* AboveMaxSpeed with each component compared to the limit
AboveMaxSpeedByComponent(nv) == Abs(nv[1]) > maxSpeed \/ Abs(nv[2]) > maxSpeed

\* AboveMaxSpeed with twice the limit
AboveTwiceMaxSpeed(nv) == Speed2(nv) > 4 * maxSpeed * maxSpeed

\* line 768: speed > maxSpeed
AboveMaxSpeed(nv) == Speed2(nv) > maxSpeed * maxSpeed

\* Rescale with the second component left as it was
RescaleFirstOnly(nv) ==
    LET speed == Sqrt(Speed2(nv))
    IN  <<RoundDiv(nv[1] * maxSpeed, speed), nv[2]>>

\* lines 769-770: (component / speed) * maxSpeed
Rescale(nv) ==
    CHOOSE scaled \in
        { <<RoundDiv(nv[1] * maxSpeed, speed), RoundDiv(nv[2] * maxSpeed, speed)>> :
          speed \in {Sqrt(Speed2(nv))} } : TRUE

\* the divisors of lines 753-754 without the guard of line 752
NormaliseDivisorsUnguarded(keys) == {Speed2(AccelerationVector(keys))}

\* lines 751-755: what the normalisation divides by (the magnitude, here its
\* square): nothing when the magnitude is 0
NormaliseDivisors(keys) ==
    IF Speed2(AccelerationVector(keys)) # 0
    THEN {Speed2(AccelerationVector(keys))}
    ELSE {}

\* lines 765-771: what the cap divides by: the speed, when it is neither
\* below the threshold nor at most maxSpeed
RescaleDivisors(nv) ==
    IF BelowStopThreshold(nv) THEN {}
    ELSE IF AboveMaxSpeed(nv) THEN {Sqrt(Speed2(nv))}
    ELSE {}

\* Limit without the branch of line 766
LimitWithoutStop(nv) == IF AboveMaxSpeed(nv) THEN Rescale(nv) ELSE nv

\* Limit without the branch of line 768
LimitWithoutCap(nv) == IF BelowStopThreshold(nv) THEN <<0, 0>> ELSE nv

\* lines 765-771: snap to zero below the threshold, cap above maxSpeed
Limit(nv) ==
    IF BelowStopThreshold(nv) THEN <<0, 0>>
    ELSE IF AboveMaxSpeed(nv) THEN Rescale(nv)
    ELSE nv

\* the vector updateVelocity passes to setVelocity (line 773); the set
\* constructor binds nv to the value of line 763
updateVelocity(v, keys) ==
    CHOOSE newVelocity \in { Limit(nv) : nv \in {Accelerate(v, keys)} } : TRUE

(***************************************************************************)
(* updateCarPosition (lines 717-740).                                      *)
(***************************************************************************)
\* HitsObstacle with distance <= 0.0001
HitsObstacleInclusive(newLng, newLat, obstacle) ==
    LET dx == Abs(newLng - obstacle[1])
        dy == Abs(newLat - obstacle[2])
    IN  /\ dx <= collisionRadius
        /\ dy <= collisionRadius
        /\ dx * dx + dy * dy <= collisionRadius * collisionRadius

\* lines 732-735: distance < 0.0001
HitsObstacle(newLng, newLat, obstacle) ==
    LET dx == Abs(newLng - obstacle[1])
        dy == Abs(newLat - obstacle[2])
    IN  /\ dx < collisionRadius
        /\ dy < collisionRadius
        /\ dx * dx + dy * dy < collisionRadius * collisionRadius

\* lines 731-738: some obstacle of the list is hit
AnyHit(newLng, newLat, obs) ==
    \E i \in 1..Len(obs) : HitsObstacle(newLng, newLat, obs[i])

\* Heading with the heading set to 0 when the velocity is zero
HeadingResetAtRest(v, rotation) ==
    IF v[1] # 0 \/ v[2] # 0 THEN Atan2(v[2], -v[1]) ELSE <<0, 1>>

\* Heading without the guard of line 726
HeadingAlways(v, rotation) == Atan2(v[2], -v[1])

\* lines 726-729: the heading is recomputed unless the velocity is zero
Heading(v, rotation) ==
    IF v[1] # 0 \/ v[2] # 0 THEN Atan2(v[2], -v[1]) ELSE rotation

\* what updateCarPosition sets from the state (pLng, pLat, v, rotation, obs)
\* of the render that created it, when map.current is set
updateCarPosition(pLng, pLat, v, rotation, obs) ==
    LET newLng == pLng - v[1]
        newLat == pLat - v[2]
    IN  [lng |-> newLng, lat |-> newLat,
         carRotation |-> Heading(v, rotation),
         hit |-> AnyHit(newLng, newLat, obs)]

\* setVelocity with the update of line 736 lost
setVelocityFirstWins(newVelocity, hit) == newVelocity

\* lines 773 and 736 in one batch of state updates: the last setVelocity wins
setVelocity(newVelocity, hit) == IF hit THEN <<0, 0>> ELSE newVelocity

\* ClosureVelocity as if updateCarPosition read the vector just computed
ClosureVelocityFresh(rendered, newVelocity) == newVelocity

\* the velocity the position is advanced by: the closure's velocity (line 740:
\* updateCarPosition depends on the rendered velocity), not the vector
\* updateVelocity has just passed to setVelocity
ClosureVelocity(rendered, newVelocity) == rendered

\* lines 904-907: one callback of the interval, closing over the state c
gameLoop(c) ==
    \E newVelocity \in {updateVelocity(c.velocity, c.keysPressed)} :
    \E moved \in {updateCarPosition(c.lng, c.lat,
                                     ClosureVelocity(c.velocity, newVelocity),
                                     carRotation, c.obstacles)} :
    \E hit \in {mapCurrent /\ moved.hit} :
        /\ velocity' = setVelocity(newVelocity, hit)
        /\ lng' = IF mapCurrent THEN moved.lng ELSE lng
        /\ lat' = IF mapCurrent THEN moved.lat ELSE lat
        /\ carRotation' = IF mapCurrent THEN moved.carRotation ELSE carRotation
        /\ last' = TickRecord(c, newVelocity, hit)
        /\ UNCHANGED <<keysPressed, obstacles, isLoading, mapCurrent>>
        /\ Commit

(***************************************************************************)
(* Key handlers (lines 776-790).                                           *)
(***************************************************************************)
\* KeysAfterDown without the test of line 777
KeysAfterDownAnyKey(keys, key) == keys \cup {key}

\* lines 777-779: the set handleKeyDown passes to setKeysPressed
KeysAfterDown(keys, key) ==
    IF key \in ArrowKeys THEN keys \cup {key} ELSE keys

\* KeysAfterUp with the set emptied instead of line 786
KeysAfterUpClears(keys, key) == IF key \in ArrowKeys THEN {} ELSE keys

\* lines 783-789: the set handleKeyUp passes to setKeysPressed
KeysAfterUp(keys, key) ==
    IF key \in ArrowKeys THEN keys \ {key} ELSE keys

handleKeyDown(key) ==
    /\ keysPressed' = KeysAfterDown(keysPressed, key)
    /\ last' = NoTick("keydown", key)
    /\ UNCHANGED <<velocity, lng, lat, carRotation, obstacles, isLoading,
                   mapCurrent>>
    /\ Commit

handleKeyUp(key) ==
    /\ keysPressed' = KeysAfterUp(keysPressed, key)
    /\ last' = NoTick("keyup", key)
    /\ UNCHANGED <<velocity, lng, lat, carRotation, obstacles, isLoading,
                   mapCurrent>>
    /\ Commit

(***************************************************************************)
(* The map's load handler (lines 825-835) and centerMap (lines 709-715).   *)
(***************************************************************************)
\* lines 830-833: a point of the square of side 0.02 around the initial
\* centre; the model draws the list from a few layouts
FarSpot(i) == <<1000000, 100000 * i>>

Layout(spot, slot) ==
    [i \in 1..NumObstacles |-> IF i = slot THEN spot ELSE FarSpot(i)]

ObstacleLayouts ==
    { Layout(FarSpot(1), 1),
      Layout(<<0, collisionRadius + 300>>, 1),
      Layout(<<collisionRadius, 0>>, 5),
      Layout(<<0, 0>>, NumObstacles) }

\* onLoad for an event the map fires again and again
onLoadRepeated ==
    /\ \E layout \in ObstacleLayouts : obstacles' = layout
    /\ isLoading' = FALSE
    /\ last' = NoTick("load", "")
    /\ UNCHANGED <<keysPressed, velocity, lng, lat, carRotation, mapCurrent>>
    /\ Commit

\* the map fires 'load' once: the handler runs while isLoading
onLoad ==
    /\ isLoading
    /\ \E layout \in ObstacleLayouts : obstacles' = layout
    /\ isLoading' = FALSE
    /\ last' = NoTick("load", "")
    /\ UNCHANGED <<keysPressed, velocity, lng, lat, carRotation, mapCurrent>>
    /\ Commit

\* the button "Center on Seattle" (line 936): the initial centre
CenterTargets == {<<0, 0>>}

\* centerMap as if it stopped the car as well
centerMapAndStop(latitude, longitude) ==
    /\ lng' = IF mapCurrent THEN longitude ELSE lng
    /\ lat' = IF mapCurrent THEN latitude ELSE lat
    /\ velocity' = <<0, 0>>
    /\ last' = NoTick("center", "")
    /\ UNCHANGED <<keysPressed, carRotation, obstacles, isLoading,
                   mapCurrent>>
    /\ Commit

centerMap(latitude, longitude) ==
    /\ lng' = IF mapCurrent THEN longitude ELSE lng
    /\ lat' = IF mapCurrent THEN latitude ELSE lat
    /\ last' = NoTick("center", "")
    /\ UNCHANGED <<keysPressed, velocity, carRotation, obstacles, isLoading,
                   mapCurrent>>
    /\ Commit

(***************************************************************************)
(* The state after the first render and its effects (lines 688-702,        *)
(* 807-909): the map is created, the listeners and the interval are set.   *)
(***************************************************************************)
Init ==
    /\ keysPressed = {}
    /\ velocity = <<0, 0>>
    /\ lng = 0
    /\ lat = 0
    /\ carRotation = <<0, 1>>
    /\ obstacles = <<>>
    /\ isLoading = TRUE
    /\ mapCurrent = TRUE
    /\ mounted = TRUE
    /\ intervals = setInterval({}, Captured({}, <<0, 0>>, 0, 0, <<>>))
    /\ stack = <<>>
    /\ batch = <<>>
    /\ rearmed = FALSE
    /\ ticks = 0
    /\ keyEvents = 0
    /\ last = [op |-> "init", key |-> "", pre |-> Snapshot,
               integrated |-> <<0, 0>>, hit |-> FALSE, closure |-> Rendered,
               calls |-> <<>>, contact |-> FALSE, preContact |-> FALSE]

(***************************************************************************)
(* Runs with a budget of key events, in which the map's load event places  *)
(* the obstacles.                                                          *)
(***************************************************************************)
Tick ==
    /\ CanDispatch
    /\ ticks < MaxTicks
    /\ \E interval \in intervals : gameLoop(interval.closure)
    /\ ticks' = ticks + 1
    /\ UNCHANGED keyEvents

KeyDown(key) ==
    /\ CanDispatch
    /\ mounted
    /\ keyEvents < MaxKeyEvents
    /\ handleKeyDown(key)
    /\ keyEvents' = keyEvents + 1
    /\ UNCHANGED ticks

KeyUp(key) ==
    /\ CanDispatch
    /\ mounted
    /\ keyEvents < MaxKeyEvents
    /\ handleKeyUp(key)
    /\ keyEvents' = keyEvents + 1
    /\ UNCHANGED ticks

Load ==
    /\ CanDispatch
    /\ mounted
    /\ onLoad
    /\ UNCHANGED <<ticks, keyEvents>>

Next ==
    \/ Tick
    \/ \E key \in EventKeys : KeyDown(key)
    \/ \E key \in EventKeys : KeyUp(key)
    \/ Load

Spec == Init /\ [][Next]_vars

(***************************************************************************)
(* Runs with any number of key events, few ticks and the button "Center on *)
(* Seattle", before the map's load event.                                  *)
(***************************************************************************)
KeysTick ==
    /\ CanDispatch
    /\ ticks < MaxKeyTicks
    /\ \E interval \in intervals : gameLoop(interval.closure)
    /\ ticks' = ticks + 1
    /\ UNCHANGED keyEvents

KeysDown(key) ==
    /\ CanDispatch
    /\ mounted
    /\ handleKeyDown(key)
    /\ UNCHANGED <<ticks, keyEvents>>

KeysUp(key) ==
    /\ CanDispatch
    /\ mounted
    /\ handleKeyUp(key)
    /\ UNCHANGED <<ticks, keyEvents>>

Center ==
    /\ CanDispatch
    /\ mounted
    /\ \E target \in CenterTargets : centerMap(target[2], target[1])
    /\ UNCHANGED <<ticks, keyEvents>>

NextKeys ==
    \/ KeysTick
    \/ \E key \in EventKeys : KeysDown(key)
    \/ \E key \in EventKeys : KeysUp(key)
    \/ Center

SpecKeys == Init /\ [][NextKeys]_vars

(***************************************************************************)
(* Runs that coast: the budgets hold while a key is held or the car is at  *)
(* rest; with no key held the interval keeps firing until the car is at    *)
(* rest.  The map has not loaded.  setInterval fires again and again as    *)
(* long as the component is mounted: the tick is weakly fair.              *)
(***************************************************************************)
CoastTick ==
    /\ CanDispatch
    /\ ticks < MaxTicks \/ (keysPressed = {} /\ velocity # <<0, 0>>)
    /\ \E interval \in intervals : gameLoop(interval.closure)
    /\ ticks' = IF ticks < MaxTicks THEN ticks + 1 ELSE ticks
    /\ UNCHANGED keyEvents

NextCoast ==
    \/ CoastTick
    \/ \E key \in ArrowKeys : KeyDown(key)
    \/ \E key \in ArrowKeys : KeyUp(key)

SpecCoast == Init /\ [][NextCoast]_vars /\ WF_vars(CoastTick)

(***************************************************************************)
(* Runs on a map that has not loaded, long enough for the car to be moved  *)
(* by a velocity the cap has rescaled.                                     *)
(***************************************************************************)
DriveTick ==
    /\ CanDispatch
    /\ ticks < MaxDriveTicks
    /\ \E interval \in intervals : gameLoop(interval.closure)
    /\ ticks' = ticks + 1
    /\ UNCHANGED keyEvents

NextDrive ==
    \/ DriveTick
    \/ \E key \in ArrowKeys : KeyDown(key)
    \/ \E key \in ArrowKeys : KeyUp(key)

SpecDrive == Init /\ [][NextDrive]_vars

(***************************************************************************)
(* Runs that take the interval callback in its two calls and end with the  *)
(* component unmounted.  updateVelocity queues its state update            *)
(* (StepIntegrate); updateCarPosition queues its own, the callback returns *)
(* and React applies the queue in order (StepResolve).                     *)
(***************************************************************************)
\* callUpdateVelocity as if updateVelocity advanced the position itself
callUpdateVelocityAndMove(c) ==
    /\ stack' = <<[closure |-> c, calls |-> <<"updateVelocity">>]>>
    /\ batch' = <<[set |-> "velocity",
                   value |-> updateVelocity(c.velocity, c.keysPressed)]>>
    /\ lng' = lng - updateVelocity(c.velocity, c.keysPressed)[1]
    /\ lat' = lat - updateVelocity(c.velocity, c.keysPressed)[2]
    /\ UNCHANGED <<keysPressed, velocity, carRotation, obstacles,
                   isLoading, mapCurrent, mounted, intervals, rearmed, last>>

\* line 905: the callback with the closure c starts and calls updateVelocity
callUpdateVelocity(c) ==
    /\ stack' = <<[closure |-> c, calls |-> <<"updateVelocity">>]>>
    /\ batch' = <<[set |-> "velocity",
                   value |-> updateVelocity(c.velocity, c.keysPressed)]>>
    /\ UNCHANGED <<keysPressed, velocity, lng, lat, carRotation, obstacles,
                   isLoading, mapCurrent, mounted, intervals, rearmed, last>>

\* lines 718-738: the state updates updateCarPosition queues, in order
ResolverUpdates(c) ==
    LET newLng == c.lng - c.velocity[1]
        newLat == c.lat - c.velocity[2]
        hits == SelectSeq(c.obstacles,
                          LAMBDA obstacle : HitsObstacle(newLng, newLat, obstacle))
    IN  IF ~mapCurrent THEN <<>>
        ELSE <<[set |-> "lng", value |-> newLng],
               [set |-> "lat", value |-> newLat]>>
             \o (IF c.velocity[1] # 0 \/ c.velocity[2] # 0
                 THEN <<[set |-> "carRotation",
                         value |-> Atan2(c.velocity[2], -c.velocity[1])]>>
                 ELSE <<>>)
             \o [i \in 1..Len(hits) |-> [set |-> "velocity", value |-> <<0, 0>>]]

\* the value of a piece of state after the queued updates: the last one
\* queued for it, or the current value
Queued(updates, setter, current) ==
    LET queued == {i \in 1..Len(updates) : updates[i].set = setter}
    IN  IF queued = {} THEN current
        ELSE updates[CHOOSE i \in queued : \A j \in queued : j <= i].value

\* line 906 and the return of the callback: updateCarPosition is called, the
\* queue is applied and the effect runs
callUpdateCarPosition ==
    \E frame \in {stack[1]} :
    \E updates \in {batch \o ResolverUpdates(frame.closure)} :
        /\ velocity' = Queued(updates, "velocity", velocity)
        /\ lng' = Queued(updates, "lng", lng)
        /\ lat' = Queued(updates, "lat", lat)
        /\ carRotation' = Queued(updates, "carRotation", carRotation)
        /\ last' = [TickRecord(frame.closure, batch[1].value,
                               \E i \in (Len(batch) + 1)..Len(updates) :
                                   updates[i].set = "velocity")
                    EXCEPT !.calls = Append(frame.calls, "updateCarPosition")]
        /\ stack' = <<>>
        /\ batch' = <<>>
        /\ UNCHANGED <<keysPressed, obstacles, isLoading, mapCurrent, mounted>>
        /\ Render

\* the cleanups of lines 895-900 and 908
unmount ==
    /\ mounted' = FALSE
    /\ intervals' = clearInterval(intervals, LatestHandle(intervals))
    /\ rearmed' = FALSE
    /\ last' = NoTick("unmount", "")
    /\ UNCHANGED <<keysPressed, velocity, lng, lat, carRotation, obstacles,
                   isLoading, mapCurrent, stack, batch>>

StepIntegrate ==
    /\ CanDispatch
    /\ ticks < MaxTicks
    /\ \E interval \in intervals : callUpdateVelocity(interval.closure)
    /\ ticks' = ticks + 1
    /\ UNCHANGED keyEvents

StepResolve ==
    /\ stack # <<>>
    /\ callUpdateCarPosition
    /\ UNCHANGED <<ticks, keyEvents>>

Unmount ==
    /\ CanDispatch
    /\ mounted
    /\ unmount
    /\ UNCHANGED <<ticks, keyEvents>>

NextSteps ==
    \/ StepIntegrate
    \/ StepResolve
    \/ \E key \in EventKeys : KeyDown(key)
    \/ \E key \in EventKeys : KeyUp(key)
    \/ Load
    \/ Unmount

SpecSteps == Init /\ [][NextSteps]_vars

(***************************************************************************)
(* Properties.  In a state with last.op = "tick" the last handler run was  *)
(* a game-loop callback: it started from last.pre, with the keys           *)
(* keysPressed (a tick leaves them), and the state is the one it left.     *)
(***************************************************************************)
AfterTick == last.op = "tick"

\* the position updateCarPosition computes in the last tick (lines 719-720)
NewPosition ==
    <<last.pre.lng - last.pre.velocity[1], last.pre.lat - last.pre.velocity[2]>>

\* the vector of the last tick before the threshold and the cap (line 765)
Uncapped == Accelerate(last.pre.velocity, last.pre.keysPressed)

C2_PositionMovesByIntegratedVelocity ==
    AfterTick =>
        /\ lng = last.pre.lng - last.integrated[1]
        /\ lat = last.pre.lat - last.integrated[2]

\* C3: a tick whose newly computed position is closer than collisionRadius
\* to some obstacle leaves the velocity (0,0), whatever the integration step
\* produced, and leaves the position at the newly computed one.
C3_CollisionZeroesVelocityKeepsPosition ==
    (AfterTick /\ AnyHit(NewPosition[1], NewPosition[2], last.pre.obstacles)) =>
        /\ velocity = <<0, 0>>
        /\ <<lng, lat>> = NewPosition

\* a tick that moved the car into an obstacle's radius while the integration
\* step produced a non-zero velocity
C3_Witness ==
    /\ AfterTick
    /\ AnyHit(NewPosition[1], NewPosition[2], last.pre.obstacles)
    /\ last.integrated # <<0, 0>>
    /\ last.pre.velocity # <<0, 0>>
    /\ <<lng, lat>> # <<last.pre.lng, last.pre.lat>>

\* C4, as stated: with all four arrow keys held the integration step gives
\* what it gives with no key held (the previous velocity damped, then the
\* threshold and the cap).
C4_AllFourKeysDampLikeNoKey ==
    (AfterTick /\ keysPressed = ArrowKeys) =>
        last.integrated = updateVelocity(last.pre.velocity, {})

\* C5: a tick with no key held and no collision strictly lowers the speed
\* of a non-zero velocity, leaves either (0,0) or a speed of at least
\* stopThreshold, and keeps (0,0) at (0,0); and while no key is held the
\* velocity reaches (0,0) after finitely many ticks.
C5_CoastStep ==
    (AfterTick /\ keysPressed = {} /\ ~last.hit) =>
        /\ last.pre.velocity # <<0, 0>> =>
               Speed2(velocity) < Speed2(last.pre.velocity)
        /\ velocity # <<0, 0>> => ~BelowStopThreshold(velocity)
        /\ BelowStopThreshold(<<Damp(last.pre.velocity[1]),
                                Damp(last.pre.velocity[2])>>) =>
               velocity = <<0, 0>>
        /\ last.pre.velocity = <<0, 0>> => velocity = <<0, 0>>

C5_CoastsToRest ==
    /\ []C5_CoastStep
    /\ (keysPressed = {}) ~> (velocity = <<0, 0>> \/ keysPressed # {})

\* a coasting tick took a non-zero velocity below the threshold, to (0,0)
C5_Witness ==
    /\ AfterTick
    /\ keysPressed = {}
    /\ ~last.hit
    /\ last.pre.velocity # <<0, 0>>
    /\ velocity = <<0, 0>>

\* C6: a tick that starts from the velocity (0,0) leaves the heading as it
\* was; the tick in which the velocity reaches (0,0) leaves the heading of
\* the last non-zero velocity; no other handler changes the heading.
C6_HeadingKeptAtRest ==
    /\ (AfterTick /\ last.pre.velocity = <<0, 0>>) =>
           carRotation = last.pre.carRotation
    /\ (AfterTick /\ last.pre.velocity # <<0, 0>> /\ velocity = <<0, 0>>) =>
           carRotation = Atan2(last.pre.velocity[2], -last.pre.velocity[1])
    /\ ~AfterTick => carRotation = last.pre.carRotation

\* a tick from rest to rest kept a heading that a non-zero velocity had set
C6_Witness ==
    /\ AfterTick
    /\ last.pre.velocity = <<0, 0>>
    /\ velocity = <<0, 0>>
    /\ carRotation # <<0, 1>>
    /\ carRotation = last.pre.carRotation

\* C7: with only ArrowUp held and no collision, a tick from a velocity
\* (0, vy) with -maxSpeed <= vy <= 0 keeps vx = 0, moves vy down by
\* acceleration but never below -maxSpeed: from (0,0) it gives
\* (0, -acceleration), below the cap vy strictly decreases, and
\* (0, -maxSpeed) stays (0, -maxSpeed).
C7_UpHeldConvergesToCap ==
    (/\ AfterTick
     /\ keysPressed = {"ArrowUp"}
     /\ ~last.hit
     /\ last.pre.velocity[1] = 0
     /\ last.pre.velocity[2] <= 0
     /\ last.pre.velocity[2] >= -maxSpeed) =>
        /\ velocity[1] = 0
        /\ velocity[2] >= -maxSpeed
        /\ velocity[2] <= last.pre.velocity[2]
        /\ velocity[2] = IF last.pre.velocity[2] - acceleration < -maxSpeed
                         THEN -maxSpeed
                         ELSE last.pre.velocity[2] - acceleration
        /\ last.pre.velocity = <<0, 0>> => velocity = <<0, -acceleration>>
        /\ last.pre.velocity[2] > -maxSpeed =>
               velocity[2] < last.pre.velocity[2]
        /\ last.pre.velocity = <<0, -maxSpeed>> =>
               velocity = <<0, -maxSpeed>>

\* ArrowUp still held at (0, -maxSpeed): the velocity stayed there
C7_Witness ==
    /\ AfterTick
    /\ keysPressed = {"ArrowUp"}
    /\ ~last.hit
    /\ last.pre.velocity = <<0, -maxSpeed>>
    /\ velocity = <<0, -maxSpeed>>

ClaimedDirection(key) ==
    CASE key = "ArrowUp" -> <<0, -1>>
      [] key = "ArrowDown" -> <<0, 1>>
      [] key = "ArrowLeft" -> <<1, 0>>
      [] key = "ArrowRight" -> <<-1, 0>>

RECURSIVE ClaimedSum(_)
ClaimedSum(keys) ==
    IF keys = {} THEN <<0, 0>>
    ELSE LET key == CHOOSE k \in keys : TRUE
             rest == ClaimedSum(keys \ {key})
         IN  <<ClaimedDirection(key)[1] + rest[1],
               ClaimedDirection(key)[2] + rest[2]>>

\* C9: from the velocity (0,0) a tick with exactly one key held gives that
\* key's direction (Up (0,-1), Down (0,1), Left (1,0), Right (-1,0)) times
\* acceleration; with keys held whose directions sum to a non-zero vector
\* the previous velocity is not damped: the vector before the threshold and
\* the cap is the previous velocity plus a vector along the summed
\* direction, of length acceleration up to rounding.
C9_KeysGiveDirection ==
    AfterTick =>
        /\ \A key \in ArrowKeys :
              (keysPressed = {key} /\ last.pre.velocity = <<0, 0>>) =>
                  last.integrated =
                      <<ClaimedDirection(key)[1] * acceleration,
                        ClaimedDirection(key)[2] * acceleration>>
        /\ (keysPressed # {} /\ ClaimedSum(keysPressed) # <<0, 0>>) =>
              LET sum == ClaimedSum(keysPressed)
                  dx == Uncapped[1] - last.pre.velocity[1]
                  dy == Uncapped[2] - last.pre.velocity[2]
              IN  /\ dx * sum[2] = dy * sum[1]
                  /\ Sgn(dx) = Sgn(sum[1])
                  /\ Sgn(dy) = Sgn(sum[2])
                  /\ dx * dx + dy * dy >= (acceleration - 1) * (acceleration - 1)
                  /\ dx * dx + dy * dy <= (acceleration + 1) * (acceleration + 1)

\* a tick with three keys held added to a non-zero velocity
C9_Witness ==
    /\ AfterTick
    /\ Cardinality(keysPressed) = 3
    /\ last.pre.velocity # <<0, 0>>
    /\ last.integrated # last.pre.velocity
    /\ velocity = last.integrated

\* C10: the held keys are always arrow keys, and a key-down or key-up of
\* any other key leaves the held keys, the velocity, the position, the
\* heading and the obstacles as they were.
C10_OtherKeysIgnored ==
    /\ keysPressed \subseteq ArrowKeys
    /\ (last.op \in {"keydown", "keyup"} /\ last.key \notin ArrowKeys) =>
           Snapshot = last.pre

\* a key-down of another key while keys are held and the car moves
C10_Witness ==
    /\ last.op = "keydown"
    /\ last.key \notin ArrowKeys
    /\ keysPressed # {}
    /\ velocity # <<0, 0>>

\* C11: a tick calls updateVelocity once and then updateCarPosition once and
\* nothing runs in between: while the interval callback is on the stack the
\* only step is its call of updateCarPosition and its return, which leaves
\* the held keys as they were; a callback starts on an empty stack and calls
\* updateVelocity first; and the state a tick leaves is the one that one
\* updateVelocity followed by one updateCarPosition give from the state the
\* callback closed over.
C11_TickState ==
    /\ stack # <<>> =>
           /\ Len(stack) = 1
           /\ stack[1].calls = <<"updateVelocity">>
           /\ Len(batch) = 1
    /\ AfterTick =>
           /\ last.calls = <<"updateVelocity", "updateCarPosition">>
           /\ last.integrated =
                  updateVelocity(last.closure.velocity, last.closure.keysPressed)
           /\ velocity = IF last.hit THEN <<0, 0>> ELSE last.integrated
           /\ lng = last.closure.lng - last.closure.velocity[1]
           /\ lat = last.closure.lat - last.closure.velocity[2]
           /\ keysPressed = last.pre.keysPressed

C11_TickStep ==
    /\ stack # <<>> =>
           /\ stack' = <<>>
           /\ last'.op = "tick"
           /\ keysPressed' = keysPressed
    /\ stack' # <<>> => stack = <<>>
    /\ ticks' # ticks => (stack = <<>> /\ stack' # <<>>)

C11_TickRunsIntegratorThenResolver ==
    /\ []C11_TickState
    /\ [][C11_TickStep]_vars

\* a tick that follows another is between its two calls, with key events
\* still to come
C11_Witness ==
    /\ stack # <<>>
    /\ last.op = "tick"
    /\ batch[1].value # <<0, 0>>
    /\ velocity # <<0, 0>>
    /\ keyEvents < MaxKeyEvents

\* C12: a tick reads the held keys of the state all key events handled
\* before it have left: every interval that can fire closes over the current
\* keysPressed, the closure of a tick that has run held the keysPressed of
\* the state it started from, and keysPressed changes only by a key-down
\* adding its arrow key or a key-up removing it.
C12_ClosureHoldsCurrentKeys ==
    /\ \A interval \in intervals : interval.closure.keysPressed = keysPressed
    /\ AfterTick => last.closure.keysPressed = last.pre.keysPressed

C12_KeysFollowEvents ==
    /\ (last'.op = "keydown" /\ last'.key \in ArrowKeys) =>
           keysPressed' = keysPressed \cup {last'.key}
    /\ (last'.op = "keyup" /\ last'.key \in ArrowKeys) =>
           keysPressed' = keysPressed \ {last'.key}
    /\ (last'.op \notin {"keydown", "keyup"} \/ last'.key \notin ArrowKeys) =>
           keysPressed' = keysPressed

C12_TickReadsCurrentKeys ==
    /\ []C12_ClosureHoldsCurrentKeys
    /\ [][C12_KeysFollowEvents]_vars

\* a tick ran with ArrowLeft alone held, after ArrowUp had been held and
\* released
C12_Witness ==
    /\ AfterTick
    /\ keysPressed = {"ArrowLeft"}
    /\ last.closure.keysPressed = {"ArrowLeft"}
    /\ last.pre.velocity[2] < 0
    /\ last.integrated[1] > 0

\* C13: the obstacles are generated once, by the map's load handler, are
\* NumObstacles points from then on, and no handler changes them afterwards.
C13_ObstaclesState ==
    /\ isLoading => obstacles = <<>>
    /\ obstacles # <<>> => Len(obstacles) = NumObstacles
    /\ last.op # "load" => obstacles = last.pre.obstacles

C13_ObstaclesStep ==
    /\ obstacles # <<>> => obstacles' = obstacles
    /\ obstacles' # obstacles => last'.op = "load"

C13_ObstaclesGeneratedOnce ==
    /\ []C13_ObstaclesState
    /\ [][C13_ObstaclesStep]_vars

\* a tick after the load moved the car into an obstacle, which stayed
C13_Witness ==
    /\ AfterTick
    /\ last.hit
    /\ <<lng, lat>> # <<0, 0>>
    /\ Len(obstacles) = NumObstacles
    /\ obstacles = last.pre.obstacles

\* C14: at most one interval is set and not cleared: exactly one while the
\* component is mounted, whose callback closes over the current state, and
\* none after the unmount; after the unmount no tick runs (no handler runs
\* and no callback is on the stack).
C14_IntervalState ==
    /\ Cardinality(intervals) <= 1
    /\ mounted => intervals = setInterval({}, Rendered)
    /\ ~mounted =>
           /\ intervals = {}
           /\ stack = <<>>
           /\ last.op = "unmount"

C14_AtMostOneInterval ==
    /\ []C14_IntervalState
    /\ [][~mounted => (ticks' = ticks /\ ~mounted')]_vars

\* the component was unmounted while the car was moving, after several ticks
\* had set the interval again
C14_Witness ==
    /\ ~mounted
    /\ ticks >= 2
    /\ velocity # <<0, 0>>
    /\ last.pre.keysPressed # {}

\* the mover went from Moving to Idle in the last tick
BecameIdle == AfterTick /\ last.pre.velocity # <<0, 0>> /\ velocity = <<0, 0>>

\* C15, as stated: the mover goes from Moving to Idle only in a tick where no
\* key is held and damping took the speed below stopThreshold, or where a
\* collision zeroed the velocity; a tick without collision in which keys of
\* non-zero summed direction are held never takes it from Moving to Idle.
C15_IdleOnlyByDampingOrCollision ==
    /\ BecameIdle =>
           \/ last.hit
           \/ /\ keysPressed = {}
              /\ Speed2(<<Damp(last.pre.velocity[1]), Damp(last.pre.velocity[2])>>)
                     < stopThreshold * stopThreshold
    /\ (BecameIdle /\ ~last.hit) => ClaimedSum(keysPressed) = <<0, 0>>

\* C15, amended: the mover goes from Moving to Idle only in a tick where a
\* collision zeroed the velocity or the vector of the integration step
\* before the threshold and the cap had a speed below stopThreshold: the
\* damped velocity when no key is held, the velocity plus the thrust when
\* keys are held (a thrust against the velocity can cancel it).  Held keys
\* whose directions sum to (0,0) never take it to Idle without a collision,
\* and whenever that vector is below stopThreshold the mover is Idle after
\* the tick.
C15_IdleOnlyBelowThresholdOrCollision ==
    /\ BecameIdle =>
           \/ last.hit
           \/ Speed2(Uncapped) < stopThreshold * stopThreshold
    /\ (BecameIdle /\ ~last.hit /\ keysPressed # {}) =>
           /\ ClaimedSum(keysPressed) # <<0, 0>>
           /\ ClaimedSum(keysPressed)[1] * last.pre.velocity[1]
                  + ClaimedSum(keysPressed)[2] * last.pre.velocity[2] < 0
    /\ (AfterTick /\ Speed2(Uncapped) < stopThreshold * stopThreshold) =>
           velocity = <<0, 0>>

\* a tick with a key held against the velocity, and no collision, stopped
\* the mover
C15_Witness ==
    /\ BecameIdle
    /\ ~last.hit
    /\ keysPressed # {}
    /\ ClaimedSum(keysPressed) # <<0, 0>>

\* the velocity a tick from the current state stores when the keys are held
TickVelocity(keys) ==
    setVelocity(updateVelocity(velocity, keys),
                mapCurrent /\ AnyHit(lng - velocity[1], lat - velocity[2],
                                     obstacles))

\* C16, as stated: no reachable state keeps the velocity at (0,0) whatever
\* the input.  At rest a key event changes the held keys only and a tick
\* leaves the position, so the mover can move again exactly if for some set
\* of held keys a tick from the state stores a non-zero velocity.
C16_SomeKeysMoveTheMover ==
    velocity = <<0, 0>> =>
        \E keys \in SUBSET ArrowKeys : TickVelocity(keys) # <<0, 0>>

\* the mover drove into an obstacle and no held keys move it any more
C16_Witness ==
    /\ AfterTick
    /\ last.hit
    /\ last.pre.velocity # <<0, 0>>
    /\ \A keys \in SUBSET ArrowKeys : TickVelocity(keys) = <<0, 0>>

\* C17: the tick after a tick in which a collision zeroed the velocity
\* leaves the position where the tick of contact put it, with or without
\* keys held.
C17_StaysAtContactPosition ==
    (AfterTick /\ last.preContact) =>
        /\ <<lng, lat>> = <<last.pre.lng, last.pre.lat>>
        /\ last.pre.velocity = <<0, 0>>

\* the tick after the contact ran with a key held and its integration step
\* gave a non-zero vector
C17_Witness ==
    /\ AfterTick
    /\ last.preContact
    /\ keysPressed # {}
    /\ last.integrated # <<0, 0>>
    /\ <<lng, lat>> # <<0, 0>>

\* C18: from every reachable state and for every set of held keys the
\* integration step and the resolution step divide by nothing that is 0 (the
\* normalisation divides only by a non-zero magnitude, the cap only by a
\* speed greater than maxSpeed > 0, up to rounding) and give a velocity, a
\* position and a heading that are defined.
C18_StepsNeverDivideByZero ==
    /\ \A keys \in SUBSET ArrowKeys : \A nv \in {Accelerate(velocity, keys)} :
           /\ 0 \notin NormaliseDivisors(keys)
           /\ \A speed \in RescaleDivisors(nv) : speed >= maxSpeed /\ maxSpeed > 0
           /\ NormaliseDivisors(keys) = {} =>
                  nv = IF keys = {}
                       THEN <<Damp(velocity[1]), Damp(velocity[2])>>
                       ELSE velocity
           /\ Limit(nv) \in Int \X Int
    /\ \A moved \in {updateCarPosition(lng, lat, velocity, carRotation, obstacles)} :
           /\ <<moved.lng, moved.lat>> \in Int \X Int
           /\ moved.carRotation \in (Int \X Int) \ {<<0, 0>>}
           /\ moved.hit \in BOOLEAN

\* a tick ran with two opposite keys held, a direction of magnitude 0, while
\* the car moved
C18_Witness ==
    /\ AfterTick
    /\ keysPressed = {"ArrowUp", "ArrowDown"}
    /\ velocity # <<0, 0>>
    /\ NormaliseDivisors(keysPressed) = {}

\* C19: the integration step changes no state: it leaves the held keys, the
\* position, the heading and the obstacles (and the stored velocity) as they
\* were and queues one update, of the velocity, whose value depends on the
\* velocity and the held keys alone.
C19_IntegrationStep ==
    (stack = <<>> /\ stack' # <<>>) =>
        /\ UNCHANGED <<keysPressed, velocity, lng, lat, carRotation, obstacles>>
        /\ batch' = <<[set |-> "velocity",
                       value |-> updateVelocity(velocity, keysPressed)]>>

C19_IntegrationOnlyQueuesVelocity == [][C19_IntegrationStep]_vars

\* the integration step has run, away from the start and with obstacles
\* placed, and has queued a velocity other than the stored one
C19_Witness ==
    /\ stack # <<>>
    /\ batch[1].value # velocity
    /\ <<lng, lat>> # <<0, 0>>
    /\ obstacles # <<>>
    /\ carRotation # <<0, 1>>

\* C20: the stored velocity, and the output of every integration step, is
\* (0,0) or has a speed of at least stopThreshold.
C20_ZeroOrAtLeastStopThreshold ==
    /\ velocity = <<0, 0>> \/ Speed2(velocity) >= stopThreshold * stopThreshold
    /\ \/ last.integrated = <<0, 0>>
       \/ Speed2(last.integrated) >= stopThreshold * stopThreshold

\* damping gave a non-zero vector below the threshold and the tick stored
\* (0,0)
C20_Witness ==
    /\ AfterTick
    /\ Uncapped # <<0, 0>>
    /\ Speed2(Uncapped) < stopThreshold * stopThreshold
    /\ velocity = <<0, 0>>
    /\ last.integrated = <<0, 0>>

\* the distance from the position to the obstacle i, squared, when neither
\* coordinate differs by more than the collision radius; beyond the radius
\* otherwise (the squares stay within 32 bits)
Distance2(i) ==
    IF /\ Abs(lng - obstacles[i][1]) <= collisionRadius
       /\ Abs(lat - obstacles[i][2]) <= collisionRadius
    THEN (lng - obstacles[i][1]) * (lng - obstacles[i][1])
             + (lat - obstacles[i][2]) * (lat - obstacles[i][2])
    ELSE collisionRadius * collisionRadius + 1

\* the obstacles strictly inside the collision radius of the position
Inside ==
    {i \in 1..Len(obstacles) : Distance2(i) < collisionRadius * collisionRadius}

\* C21: after a tick, when no obstacle is strictly inside the collision
\* radius of the new position (an obstacle at exactly the radius, or no
\* obstacle at all, included) the resolver has not zeroed the velocity and
\* the stored velocity is the integrator's output; when at least one obstacle
\* is strictly inside, whatever the others, the stored velocity is (0,0).
C21_CollisionStrictAndExistential ==
    AfterTick =>
        /\ Inside = {} => (~last.hit /\ velocity = last.integrated)
        /\ Inside # {} => (last.hit /\ velocity = <<0, 0>>)

\* a tick ended with an obstacle at exactly the collision radius, none
\* inside, and stored the non-zero vector of the integration step
C21_Witness ==
    /\ AfterTick
    /\ \E i \in 1..Len(obstacles) :
           Distance2(i) = collisionRadius * collisionRadius
    /\ Inside = {}
    /\ velocity # <<0, 0>>
    /\ velocity = last.integrated

\* line 727, * (180 / Math.PI): the degrees of the rays along the axes and
\* the diagonals
Degrees ==
    [ray \in {-1, 0, 1} \X {-1, 0, 1} \ {<<0, 0>>} |->
        CASE ray = <<0, 1>> -> 0
          [] ray = <<1, 1>> -> 45
          [] ray = <<1, 0>> -> 90
          [] ray = <<1, -1>> -> 135
          [] ray = <<0, -1>> -> 180
          [] ray = <<-1, -1>> -> -135
          [] ray = <<-1, 0>> -> -90
          [] ray = <<-1, 1>> -> -45]

\* the ray <<y, x>> in lowest terms points the way of the vector <<y0, x0>>
SameRay(ray, y0, x0) ==
    /\ ray[1] * x0 = ray[2] * y0
    /\ ray[1] * y0 + ray[2] * x0 > 0
    /\ \A d \in 2..2 * maxSpeed : ray[1] % d # 0 \/ ray[2] % d # 0

\* C22: after a tick whose resolver used a non-zero velocity (vx, vy), the
\* stored heading is atan2(vy, -vx); along the axes that is -90 degrees for
\* vx = 0, vy < 0 (Up), 90 for vx = 0, vy > 0 (Down), 180 for vx > 0, vy = 0
\* (Left) and 0 for vx < 0, vy = 0 (Right).
C22_HeadingIsAtan2OfResolverVelocity ==
    (AfterTick /\ last.pre.velocity # <<0, 0>>) =>
        LET vx == last.pre.velocity[1]
            vy == last.pre.velocity[2]
        IN  /\ SameRay(carRotation, vy, -vx)
            /\ (vx = 0 /\ vy < 0) => Degrees[carRotation] = -90
            /\ (vx = 0 /\ vy > 0) => Degrees[carRotation] = 90
            /\ (vx > 0 /\ vy = 0) => Degrees[carRotation] = 180
            /\ (vx < 0 /\ vy = 0) => Degrees[carRotation] = 0

\* a tick moved the car by a velocity along the positive x axis (ArrowLeft)
\* and stored the heading 180
C22_Witness ==
    /\ AfterTick
    /\ last.pre.velocity[1] > 0
    /\ last.pre.velocity[2] = 0
    /\ <<lng, lat>> = NewPosition
    /\ Degrees[carRotation] = 180

\* C23: a key-down of an arrow key makes that key held and a key-up makes it
\* not held, and both leave the other three keys as they were; a key-down of
\* a held key and a key-up of a key not held leave the set as it was; a
\* key-down followed by the key-up of the same key restores a set that did
\* not hold the key.
C23_SingleWriterPerKey ==
    /\ (last.op = "keydown" /\ last.key \in ArrowKeys) =>
           /\ last.key \in keysPressed
           /\ keysPressed \ {last.key} = last.pre.keysPressed \ {last.key}
           /\ last.key \in last.pre.keysPressed =>
                  keysPressed = last.pre.keysPressed
    /\ (last.op = "keyup" /\ last.key \in ArrowKeys) =>
           /\ last.key \notin keysPressed
           /\ keysPressed \ {last.key} = last.pre.keysPressed \ {last.key}
           /\ last.key \notin last.pre.keysPressed =>
                  keysPressed = last.pre.keysPressed
    /\ \A key \in ArrowKeys \ keysPressed :
           KeysAfterUp(KeysAfterDown(keysPressed, key), key) = keysPressed

\* the key-up of a held key while another key stays held
C23_Witness ==
    /\ last.op = "keyup"
    /\ last.key \in last.pre.keysPressed
    /\ keysPressed # {}
    /\ keysPressed = last.pre.keysPressed \ {last.key}

\* key events leave the velocity, the position and the heading as they were
KeyEventsOnlyChangeKeys ==
    last.op \in {"keydown", "keyup"} =>
        /\ velocity = last.pre.velocity
        /\ <<lng, lat>> = <<last.pre.lng, last.pre.lat>>
        /\ carRotation = last.pre.carRotation

\* what a tick stores: the integration step's vector or the zero of a
\* collision, the resolver's position, the derived heading
TickChangesMotion ==
    AfterTick =>
        /\ velocity \in {last.integrated, <<0, 0>>}
        /\ <<lng, lat>> = NewPosition
        /\ carRotation = Heading(last.pre.velocity, last.pre.carRotation)

\* C24 as stated: key events change only the held keys, and the velocity,
\* the position and the heading change only inside a tick.
C24_MotionChangesOnlyInTicks ==
    /\ KeyEventsOnlyChangeKeys
    /\ TickChangesMotion
    /\ ~AfterTick =>
           /\ velocity = last.pre.velocity
           /\ <<lng, lat>> = <<last.pre.lng, last.pre.lat>>
           /\ carRotation = last.pre.carRotation

\* C24: key events change only the held keys; the velocity and the heading
\* change only inside a tick; the position changes only inside a tick or by
\* centerMap (the button and the geocoder result), which sets it to the
\* given centre and leaves the velocity and the heading.
C24_MotionChangesOnlyInTicksOrCenterMap ==
    /\ KeyEventsOnlyChangeKeys
    /\ TickChangesMotion
    /\ ~AfterTick =>
           /\ velocity = last.pre.velocity
           /\ carRotation = last.pre.carRotation
    /\ last.op \notin {"tick", "center"} =>
           <<lng, lat>> = <<last.pre.lng, last.pre.lat>>
    /\ last.op = "center" => <<lng, lat>> \in CenterTargets

\* centerMap moved the car while it was moving and left its velocity
C24_Witness ==
    /\ last.op = "center"
    /\ <<lng, lat>> # <<last.pre.lng, last.pre.lat>>
    /\ velocity # <<0, 0>>
    /\ velocity = last.pre.velocity

\* the displacement of the last tick
Displacement == <<lng - last.pre.lng, lat - last.pre.lat>>

C26_KeyEventsLeaveTheInterval ==
    last.op \in {"keydown", "keyup"} => ~rearmed

\* the key-down of a key already held, after which the interval was cleared
\* and set again
C26_Witness ==
    /\ last.op = "keydown"
    /\ last.key \in last.pre.keysPressed
    /\ keysPressed = last.pre.keysPressed
    /\ rearmed

\* C27: a tick that starts with the velocity (0,0) and no key held leaves
\* the position, the velocity and the heading as they were, whatever the
\* obstacles.
C27_IdleTickIsNoOp ==
    (AfterTick /\ last.pre.velocity = <<0, 0>> /\ last.pre.keysPressed = {}) =>
        /\ velocity = <<0, 0>>
        /\ last.integrated = <<0, 0>>
        /\ <<lng, lat>> = <<last.pre.lng, last.pre.lat>>
        /\ carRotation = last.pre.carRotation

\* a tick at rest with no key held, away from the start, with a heading
\* other than the initial one and an obstacle within the collision radius
C27_Witness ==
    /\ AfterTick
    /\ last.pre.velocity = <<0, 0>>
    /\ last.pre.keysPressed = {}
    /\ last.hit
    /\ <<lng, lat>> # <<0, 0>>
    /\ carRotation # <<0, 1>>

====
